---------------------------- MODULE Spec2Model ----------------------------
(***************************************************************************)
(* Model of src/main.py: the ReferralNetwork graph (parents / children /   *)
(* nodes), its queries, the flow-centrality ranking, the expected-value    *)
(* growth simulation and the bonus search built on it.                     *)
(***************************************************************************)
EXTENDS Integers, Sequences, FiniteSets, TLC

(* ------------------------------ bounds -------------------------------- *)

NumUsers == 4

\* probabilities are the multiples k / PDen, k \in 0..PDen
PDen == 4

\* expected_network_size is stepped for days \in 0..MaxDays
MaxDays == 4

\* min_bonus_for_target: days \in 0..MaxSearchDays, the oracle is given at
\* the bonuses 0, 10, .., 10 * MaxBonusSteps (constant above), the target is
\* 100 + TargetStep * j for j \in 0..MaxTargetSteps, initial_high is
\* 10 * i for i \in 1..MaxInitialHigh
MaxSearchDays == 1

MaxBonusSteps == 5

TargetStep == 25

MaxTargetSteps == 5

MaxInitialHigh == 4

(* -------------------------- program constants -------------------------- *)

BONUS_INCREMENT == 10

InitialReferrers == 100

FullCapacity == 10

UserNames == <<"A", "B", "C", "D", "E", "F", "G", "H">>

Users == {UserNames[i] : i \in 1..NumUsers}

VARIABLES
    parents,    \* self._parents: candidate -> referrer
    children,   \* self._children: referrer -> set of candidates (defaultdict)
    nodes,      \* self._nodes
    ret,        \* the last call and what it returned / raised
    sim,        \* a call of expected_network_size: its locals and position
    search      \* a call of min_bonus_for_target: its locals and position

graph == <<parents, children, nodes>>

vars == <<parents, children, nodes, ret, sim, search>>

(* ------------------------- helpers on values --------------------------- *)

\* All enumerations (iteration orders) of a finite set, as sequences.
RECURSIVE Orders(_)
Orders(S) ==
    IF S = {} THEN {<<>>}
    ELSE UNION {{<<x>> \o o : o \in Orders(S \ {x})} : x \in S}

SeqToSet(s) == {s[i] : i \in 1..Len(s)}

\* dict.get(key, default) on the children index
ChildrenGet(ch, user) == IF user \in DOMAIN ch THEN ch[user] ELSE {}

(* --------------------------- ReferralNetwork --------------------------- *)

\* a faulty variant of WalkMeets: only the referrer's own referrer is compared
WalkMeetsParentOnly(par, current, candidate) ==
    current \in DOMAIN par /\ par[current] = candidate

\* the while loop of _check_constraints: walk up from current, TRUE iff the
\* candidate is met on the way
RECURSIVE WalkMeets(_, _, _)
WalkMeets(par, current, candidate) ==
    IF current \notin DOMAIN par THEN FALSE
    ELSE LET next == par[current]
         IN  IF next = candidate THEN TRUE
             ELSE WalkMeets(par, next, candidate)

\* a faulty variant of CheckConstraints: the cycle test comes before the duplicate test
CheckConstraintsCycleFirst(referrer, candidate) ==
    IF referrer = candidate THEN "self"
    ELSE IF WalkMeets(parents, referrer, candidate) THEN "cycle"
    ELSE IF candidate \in DOMAIN parents THEN "duplicate"
    ELSE "ok"

CheckConstraints(referrer, candidate) ==
    IF referrer = candidate THEN "self"
    ELSE IF candidate \in DOMAIN parents THEN "duplicate"
    ELSE IF WalkMeets(parents, referrer, candidate) THEN "cycle"
    ELSE "ok"

\* self._parents[candidate] = referrer
ParentsAfterAdd(referrer, candidate) ==
    [u \in DOMAIN parents \cup {candidate} |->
        IF u = candidate THEN referrer ELSE parents[u]]

\* a faulty variant of ChildrenAfterAdd: the set of the referrer is replaced, not
\* extended
ChildrenAfterAddOverwrite(referrer, candidate) ==
    [u \in DOMAIN children \cup {referrer} |->
        IF u = referrer THEN {candidate} ELSE children[u]]

\* self._children[referrer].add(candidate)   (defaultdict creates the key)
ChildrenAfterAdd(referrer, candidate) ==
    [u \in DOMAIN children \cup {referrer} |->
        IF u = referrer THEN ChildrenGet(children, referrer) \cup {candidate}
        ELSE children[u]]

\* self._nodes.add(referrer); self._nodes.add(candidate)
NodesAfterAdd(referrer, candidate) == nodes \cup {referrer, candidate}

\* a faulty variant of AddReferral: the endpoints enter _nodes before the constraints
\* are checked
AddReferralNodesFirst(referrer, candidate) ==
    LET outcome == CheckConstraints(referrer, candidate)
    IN  /\ ret.op = "none"
        /\ nodes' = NodesAfterAdd(referrer, candidate)
        /\ IF outcome = "ok"
           THEN /\ parents' = ParentsAfterAdd(referrer, candidate)
                /\ children' = ChildrenAfterAdd(referrer, candidate)
           ELSE UNCHANGED <<parents, children>>
        /\ ret' = [op |-> "add_referral", referrer |-> referrer,
                   candidate |-> candidate, outcome |-> outcome]
        /\ UNCHANGED <<sim, search>>

AddReferral(referrer, candidate) ==
    LET outcome == CheckConstraints(referrer, candidate)
    IN  /\ ret.op = "none"
        /\ IF outcome = "ok"
           THEN /\ parents' = ParentsAfterAdd(referrer, candidate)
                /\ children' = ChildrenAfterAdd(referrer, candidate)
                /\ nodes' = NodesAfterAdd(referrer, candidate)
           ELSE UNCHANGED graph
        /\ ret' = [op |-> "add_referral", referrer |-> referrer,
                   candidate |-> candidate, outcome |-> outcome]
        /\ UNCHANGED <<sim, search>>

\* return self._children.get(user, set()): the stored set object itself when
\* the key exists (live), a new empty set otherwise
DirectReferralsIsLive(user) == user \in DOMAIN children

DirectReferrals(user) ==
    /\ ret.op = "none"
    /\ ret' = [op |-> "direct_referrals", user |-> user,
               live |-> DirectReferralsIsLive(user),
               value |-> ChildrenGet(children, user)]
    /\ UNCHANGED <<graph, sim, search>>

\* a faulty variant of DfsResults: the children of a popped node are not pushed
RECURSIVE DfsResultsNoPush(_, _, _)
DfsResultsNoPush(ch, stack, result) ==
    IF stack = <<>> THEN {result}
    ELSE DfsResultsNoPush(ch, SubSeq(stack, 1, Len(stack) - 1),
                          Append(result, stack[Len(stack)]))

\* the while loop of all_referrals: pop the last element of the stack, append
\* it to the result, push its children (in any iteration order of the set).
\* The set of every result the loop can produce.
RECURSIVE DfsResults(_, _, _)
DfsResults(ch, stack, result) ==
    IF stack = <<>> THEN {result}
    ELSE LET node == stack[Len(stack)]
             rest == SubSeq(stack, 1, Len(stack) - 1)
         IN  UNION {DfsResults(ch, rest \o o, Append(result, node)) :
                        o \in Orders(ChildrenGet(ch, node))}

AllReferralsResults(user) ==
    UNION {DfsResults(children, s, <<>>) :
              s \in Orders(ChildrenGet(children, user))}

AllReferrals(user) ==
    /\ ret.op = "none"
    /\ \E r \in AllReferralsResults(user) :
          ret' = [op |-> "all_referrals", user |-> user, value |-> r]
    /\ UNCHANGED <<graph, sim, search>>

\* the while loop of all_ancestors
RECURSIVE AncestorsWalk(_, _, _)
AncestorsWalk(par, current, result) ==
    IF current \notin DOMAIN par THEN result
    ELSE AncestorsWalk(par, par[current], Append(result, par[current]))

AllAncestorsResult(user) == AncestorsWalk(parents, user, <<>>)

AllAncestors(user) ==
    /\ ret.op = "none"
    /\ ret' = [op |-> "all_ancestors", user |-> user,
               value |-> AllAncestorsResult(user)]
    /\ UNCHANGED <<graph, sim, search>>

\* return self._nodes.copy()
GetAllNodesIsLive == FALSE

GetAllNodes ==
    /\ ret.op = "none"
    /\ ret' = [op |-> "get_all_nodes", live |-> GetAllNodesIsLive,
               value |-> nodes]
    /\ UNCHANGED <<graph, sim, search>>

(* --------------------------- influence metrics ------------------------- *)

\* len(network.all_ancestors(user)) * len(list(network.all_referrals(user)))
FlowValues(user) ==
    {Len(AllAncestorsResult(user)) * Len(r) : r \in AllReferralsResults(user)}

\* the flow dicts the comprehension can build: one value per user of S
RECURSIVE FlowDictsOver(_)
FlowDictsOver(S) ==
    IF S = {} THEN {<<>>}
    ELSE LET u == CHOOSE x \in S : TRUE
         IN  {(u :> v) @@ f : v \in FlowValues(u), f \in FlowDictsOver(S \ {u})}

\* {user: ... for user in network.get_all_nodes()}
FlowDicts == FlowDictsOver(nodes)

\* a faulty variant of SortedDesc: reverse=True is missing, smaller keys first
RECURSIVE SortedAsc(_, _)
SortedAsc(order, key) ==
    IF order = <<>> THEN <<>>
    ELSE LET n    == Len(order)
             x    == order[n]
             head == SortedAsc(SubSeq(order, 1, n - 1), key)
             pos  == Cardinality({i \in 1..Len(head) : key[head[i]] <= key[x]})
         IN  SubSeq(head, 1, pos) \o <<x>> \o SubSeq(head, pos + 1, Len(head))

\* sorted(seq, key=..., reverse=True): stable, larger keys first
RECURSIVE SortedDesc(_, _)
SortedDesc(order, key) ==
    IF order = <<>> THEN <<>>
    ELSE LET n    == Len(order)
             x    == order[n]
             head == SortedDesc(SubSeq(order, 1, n - 1), key)
             \* x goes after every element whose key is >= key[x]
             pos  == Cardinality({i \in 1..Len(head) : key[head[i]] >= key[x]})
         IN  SubSeq(head, 1, pos) \o <<x>> \o SubSeq(head, pos + 1, Len(head))

\* seq[:k] for k >= 0
Take(s, k) == SubSeq(s, 1, IF k < Len(s) THEN k ELSE Len(s))

\* network.get_all_nodes() is iterated in some order to build the flow dict,
\* the dict is sorted by flow and cut at k
TopKByFlowCentrality ==
    /\ ret.op = "none"
    /\ \E flow \in FlowDicts, order \in Orders(nodes) :
          LET ranked == SortedDesc(order, flow)
          IN  \E k \in 0..(NumUsers + 1) :
                 ret' = [op |-> "top_k_by_flow_centrality", k |-> k,
                         flow |-> flow, value |-> Take(ranked, k)]
    /\ UNCHANGED <<graph, sim, search>>

(* ------------------------------- caller -------------------------------- *)

\* the caller is done with the value of the last call and goes on
Return ==
    /\ ret.op # "none"
    /\ ret' = [op |-> "none"]
    /\ UNCHANGED <<graph, sim, search>>

HoldsCollection == ret.op \in {"direct_referrals", "get_all_nodes"}

\* value.add(x) / value.discard(x) on a returned collection
MutatedSet(S, x, adding) == IF adding THEN S \cup {x} ELSE S \ {x}

CallerMutates(x, adding) ==
    /\ HoldsCollection
    /\ IF ret.live
       THEN /\ children' = [children EXCEPT
                               ![ret.user] = MutatedSet(@, x, adding)]
            /\ ret' = [ret EXCEPT !.value = MutatedSet(@, x, adding)]
            /\ UNCHANGED <<parents, nodes, sim, search>>
       ELSE /\ ret' = [ret EXCEPT !.value = MutatedSet(@, x, adding)]
            /\ UNCHANGED <<graph, sim, search>>

(* --------------------------- growth simulator -------------------------- *)

\* A float x of the simulation is held as the integer x * Scale.  With p a
\* multiple of 1 / PDen every product below is an exact integer, as it is an
\* exact double in the code for the days considered.
Scale == PDen ^ (MaxDays + 1)

Probs == 0..PDen

Levels == 0..FullCapacity

\* x * p   and   x * (1 - p),   p given as its numerator over PDen
TimesP(x, p) == (x * p) \div PDen

TimesNotP(x, p) == (x * (PDen - p)) \div PDen

\* _rebuild_capacity
RebuildCapacity(capacity, day_successes, p) ==
    [c \in Levels |->
        (IF c >= 1 THEN TimesNotP(capacity[c], p) ELSE 0)
      + (IF c < FullCapacity THEN TimesP(capacity[c + 1], p) ELSE 0)
      + (IF c = FullCapacity THEN day_successes ELSE 0)]

\* sum(capacity[1:11])
RECURSIVE SumFrom(_, _)
SumFrom(capacity, c) ==
    IF c > FullCapacity THEN 0 ELSE capacity[c] + SumFrom(capacity, c + 1)

Active(capacity) == SumFrom(capacity, 1)

\* capacity = [0.0] * 11; capacity[10] = 100.0; total_successes = 0.0
InitialCapacity ==
    [c \in Levels |-> IF c = FullCapacity THEN InitialReferrers * Scale ELSE 0]

\* a faulty variant of Iterations: range(days)
IterationsExclusive(days) == days

\* how often the body of `for _ in range(days + 1)` runs
Iterations(days) == days + 1

\* one run of the loop body on the locals (capacity, total_successes)
LoopBody(capacity, total, p) ==
    LET active        == Active(capacity)
        day_successes == TimesP(active, p)
    IN  [capacity |-> RebuildCapacity(capacity, day_successes, p),
         total    |-> total + day_successes]

\* return 100.0 + total_successes
SimResult(total) == InitialReferrers * Scale + total

RECURSIVE RunLoop(_, _, _, _)
RunLoop(capacity, total, p, left) ==
    IF left = 0 THEN total
    ELSE LET after == LoopBody(capacity, total, p)
         IN  RunLoop(after.capacity, after.total, p, left - 1)

\* expected_network_size(p, days), times Scale
ExpectedNetworkSize(p, days) ==
    SimResult(RunLoop(InitialCapacity, 0, p, Iterations(days)))

SimIdle == [pc |-> "idle"]

SimIterate ==
    /\ sim.pc = "loop"
    /\ sim.iter < Iterations(sim.days)
    /\ LET after == LoopBody(sim.capacity, sim.total, sim.p)
       IN  sim' = [sim EXCEPT !.capacity = after.capacity,
                              !.total = after.total,
                              !.iter = @ + 1]
    /\ UNCHANGED <<graph, ret, search>>

SimReturn ==
    /\ sim.pc = "loop"
    /\ sim.iter >= Iterations(sim.days)
    /\ sim' = [sim EXCEPT !.pc = "done", !.result = SimResult(sim.total)]
    /\ UNCHANGED <<graph, ret, search>>

(* ----------------------------- bonus search ---------------------------- *)

\* the oracles: monotone non-decreasing from the bonus index to Probs
Oracles ==
    {f \in [0..MaxBonusSteps -> Probs] :
        \A i \in 0..MaxBonusSteps, j \in 0..MaxBonusSteps :
            i <= j => f[i] <= f[j]}

\* adoption_prob(bonus)
AdoptionProb(oracle, bonus) ==
    LET i == bonus \div BONUS_INCREMENT
    IN  oracle[IF i > MaxBonusSteps THEN MaxBonusSteps ELSE i]

\* reaches_target(bonus)
ReachesTarget(oracle, days, target, bonus) ==
    ExpectedNetworkSize(AdoptionProb(oracle, bonus), days) >= target * Scale

\* Python's round() of num / den (num >= 0, den > 0): ties go to the even side
RoundHalfEven(num, den) ==
    LET q == num \div den
        r == num % den
    IN  IF 2 * r < den THEN q
        ELSE IF 2 * r > den THEN q + 1
        ELSE IF q % 2 = 0 THEN q ELSE q + 1

\* round((low + high) / 2 / BONUS_INCREMENT) * BONUS_INCREMENT
Midpoint(low, high) ==
    RoundHalfEven(low + high, 2 * BONUS_INCREMENT) * BONUS_INCREMENT

\* the doubling of phase 1 is followed up to this bound; an oracle that
\* reaches the target or saturates does so at a smaller high
HighCap == 2 * BONUS_INCREMENT * (MaxBonusSteps + MaxInitialHigh)

SearchIdle == [pc |-> "idle"]

\* one test of `while not reaches_target(high)` and, if it fails, the body
Phase1 ==
    /\ search.pc = "phase1"
    /\ IF ReachesTarget(search.oracle, search.days, search.target, search.high)
       THEN search' = [search EXCEPT !.pc = "phase2"]
       ELSE IF AdoptionProb(search.oracle, search.high) >= PDen
            THEN search' = [search EXCEPT !.pc = "done", !.none = TRUE]
            ELSE /\ 2 * search.high <= HighCap
                 /\ search' = [search EXCEPT !.low = search.high,
                                             !.high = 2 * search.high]
    /\ UNCHANGED <<graph, ret, sim>>

\* the test of `while low + BONUS_INCREMENT <= high` and the midpoint
Phase2 ==
    /\ search.pc = "phase2"
    /\ IF search.low + BONUS_INCREMENT <= search.high
       THEN search' = [search EXCEPT !.pc = "probe",
                                     !.mid = Midpoint(search.low, search.high)]
       ELSE search' = [search EXCEPT !.pc = "done", !.result = search.low]
    /\ UNCHANGED <<graph, ret, sim>>

\* if reaches_target(mid): high = mid  else: low = mid + BONUS_INCREMENT
Probe ==
    /\ search.pc = "probe"
    /\ IF ReachesTarget(search.oracle, search.days, search.target, search.mid)
       THEN search' = [search EXCEPT !.pc = "phase2", !.high = search.mid]
       ELSE search' = [search EXCEPT !.pc = "phase2",
                                     !.low = search.mid + BONUS_INCREMENT]
    /\ UNCHANGED <<graph, ret, sim>>

(* ---------------------------- specifications --------------------------- *)

GraphInit ==
    /\ parents = <<>>
    /\ children = <<>>
    /\ nodes = {}
    /\ ret = [op |-> "none"]

Init ==
    /\ GraphInit
    /\ sim = SimIdle
    /\ search = SearchIdle

Next ==
    \/ \E r \in Users, c \in Users : AddReferral(r, c)
    \/ \E u \in Users : DirectReferrals(u)
    \/ \E u \in Users : AllReferrals(u)
    \/ \E u \in Users : AllAncestors(u)
    \/ GetAllNodes
    \/ TopKByFlowCentrality
    \/ Return

Spec == Init /\ [][Next]_vars

\* the network together with a caller that mutates what the queries returned
AliasNext ==
    \/ \E r \in Users, c \in Users : AddReferral(r, c)
    \/ \E u \in Users : DirectReferrals(u)
    \/ GetAllNodes
    \/ \E x \in Users, adding \in BOOLEAN : CallerMutates(x, adding)
    \/ Return

AliasSpec == Init /\ [][AliasNext]_vars

\* calls expected_network_size(p, days)
GrowthInit ==
    /\ GraphInit
    /\ search = SearchIdle
    /\ \E p \in Probs, days \in 0..MaxDays :
          sim = [pc |-> "loop", p |-> p, days |-> days,
                 capacity |-> InitialCapacity, total |-> 0, iter |-> 0,
                 result |-> 0]

GrowthNext == SimIterate \/ SimReturn

GrowthSpec == GrowthInit /\ [][GrowthNext]_vars

\* calls min_bonus_for_target(days, target, adoption_prob, initial_high)
SearchInit ==
    /\ GraphInit
    /\ sim = SimIdle
    /\ \E oracle \in Oracles, days \in 0..MaxSearchDays,
          j \in 0..MaxTargetSteps, i \in 1..MaxInitialHigh :
          search = [pc |-> "phase1", oracle |-> oracle, days |-> days,
                    target |-> InitialReferrers + TargetStep * j,
                    initial_high |-> BONUS_INCREMENT * i,
                    low |-> 0, high |-> BONUS_INCREMENT * i, mid |-> 0,
                    none |-> FALSE, result |-> 0]

SearchNext == Phase1 \/ Phase2 \/ Probe

SearchSpec == SearchInit /\ [][SearchNext]_vars

\* the interpreter keeps running the call: no step that can be taken is
\* postponed for ever
SearchFairSpec == SearchSpec /\ WF_vars(SearchNext)

(* ------------------- the graph, as the claims speak of it --------------- *)

\* the users reached from the set S in at most n steps of the relation step
RECURSIVE Closure(_, _, _)
Closure(step(_), S, n) ==
    IF n = 0 THEN S
    ELSE Closure(step, S \cup UNION {step(x) : x \in S}, n - 1)

ParentOf(u) == IF u \in DOMAIN parents THEN {parents[u]} ELSE {}

ChildrenOf(u) == ChildrenGet(children, u)

\* following _parents from u: everything met after at least one step
StrictAncestors(u) == Closure(ParentOf, ParentOf(u), NumUsers)

\* following _children from u: everything met after at least one step
StrictDescendants(u) == Closure(ChildrenOf, ChildrenOf(u), NumUsers)

NoDuplicates(s) == \A i \in 1..Len(s), j \in 1..Len(s) : s[i] = s[j] => i = j

IsAdd(r) == r.op = "add_referral"

IsRejection(r) == IsAdd(r) /\ r.outcome # "ok"

(* C1: after any sequence of add_referral calls, accepted or rejected, the
   referrer -> candidate edges have no cycle and no self-loop: following
   _parents from a user never returns to that user. *)
C1_Acyclic == \A u \in Users : u \notin StrictAncestors(u)

\* a call that would have closed a cycle of length >= 3 has been rejected
C1_Witness ==
    /\ IsAdd(ret) /\ ret.outcome = "cycle"
    /\ Len(AllAncestorsResult(ret.referrer)) >= 2
    /\ AllAncestorsResult(ret.referrer)[1] # ret.candidate

(* C2: a rejected add_referral leaves _parents, _children and _nodes exactly
   as they were before the call, whatever the reason of the rejection. *)
C2_RejectedAddChangesNothing ==
    [][(ret.op = "none" /\ IsRejection(ret')) => graph' = graph]_vars

\* a call has been rejected on a graph that already holds two edges
C2_Witness ==
    /\ IsRejection(ret)
    /\ Cardinality(DOMAIN parents) >= 2
    /\ ret.referrer \in nodes /\ ret.candidate \in nodes

(* C3: the two indices agree in every reachable state: c is in _children[r]
   iff _parents[c] = r; so every user has at most one referrer and is in at
   most one children set. *)
C3_IndicesAgree ==
    /\ \A r \in Users, c \in Users :
          c \in ChildrenOf(r) <=> (c \in DOMAIN parents /\ parents[c] = r)
    /\ \A c \in Users : Cardinality({r \in Users : c \in ChildrenOf(r)}) <= 1

\* a referrer with two candidates and a candidate that refers on
C3_Witness ==
    \E r \in Users, c \in Users :
        /\ Cardinality(ChildrenOf(r)) >= 2
        /\ c \in ChildrenOf(r) /\ ChildrenOf(c) # {}

\* what the claim says of add_referral(referrer, candidate) in a given state
ExpectedOutcome(referrer, candidate) ==
    IF referrer = candidate THEN "self"
    ELSE IF candidate \in DOMAIN parents THEN "duplicate"
    ELSE IF candidate \in StrictAncestors(referrer) THEN "cycle"
    ELSE "ok"

(* C4: add_referral(referrer, candidate) is rejected iff referrer = candidate,
   or the candidate has a referrer, or the candidate is an ancestor of the
   referrer, reporting the first violated constraint in that order (so the
   reverse of an accepted edge A -> B is rejected: as a duplicate referrer
   when A has a referrer, as a cycle otherwise); in every other case it
   succeeds and records exactly the edge in both indices and both endpoints
   in _nodes. *)
C4_AddOutcome ==
    [][(ret.op = "none" /\ IsAdd(ret')) =>
         LET r == ret'.referrer
             c == ret'.candidate
         IN  /\ ret'.outcome = ExpectedOutcome(r, c)
             /\ (r \in DOMAIN parents /\ parents[r] = c) =>
                   ret'.outcome = (IF c \in DOMAIN parents
                                   THEN "duplicate" ELSE "cycle")
             /\ ret'.outcome = "ok" =>
                   /\ DOMAIN parents' = DOMAIN parents \cup {c}
                   /\ parents'[c] = r
                   /\ \A u \in DOMAIN parents : parents'[u] = parents[u]
                   /\ \A u \in Users :
                         ChildrenGet(children', u) =
                            IF u = r THEN ChildrenOf(u) \cup {c}
                            ELSE ChildrenOf(u)
                   /\ nodes' = nodes \cup {r, c}
    ]_vars

\* the reverse of an accepted edge was rejected as a cycle, in a graph that
\* holds a second tree
C4_Witness ==
    /\ IsAdd(ret) /\ ret.outcome = "cycle"
    /\ ret.referrer \in DOMAIN parents
    /\ parents[ret.referrer] = ret.candidate
    /\ \E u \in Users \ {ret.referrer, ret.candidate} : ChildrenOf(u) # {}

(* C8: all_referrals(u) holds exactly the strict descendants of u under the
   children relation, each once, is empty for an unknown or childless u, and
   the call changes nothing in the network. *)
C8_AllReferrals ==
    /\ [](ret.op = "all_referrals" =>
             /\ SeqToSet(ret.value) = StrictDescendants(ret.user)
             /\ NoDuplicates(ret.value)
             /\ (ret.user \notin nodes \/ ChildrenOf(ret.user) = {}) =>
                   ret.value = <<>>)
    /\ [][ret'.op = "all_referrals" => graph' = graph]_vars

\* the result holds direct and indirect referrals of a user with two branches
C8_Witness ==
    /\ ret.op = "all_referrals"
    /\ Len(ret.value) >= 3
    /\ Cardinality(ChildrenOf(ret.user)) >= 2

\* u lies on a directed path from s to t
OnPath(u, s, t) == u \in StrictDescendants(s) /\ t \in StrictDescendants(u)

\* the ordered pairs (s, t), s # t, both # u, with u on the path from s to t
PathPairs(u) ==
    {st \in Users \X Users :
        /\ st[1] # st[2] /\ st[1] # u /\ st[2] # u
        /\ OnPath(u, st[1], st[2])}

Min(a, b) == IF a < b THEN a ELSE b

(* C9: top_k_by_flow_centrality(network, k), k >= 0, returns min(k, number of
   users) distinct users in non-increasing order of flow; the flow the code
   computes for u is the number of ordered pairs (s, t), s # t, both # u,
   with u on the directed path from s to t; no omitted user has a larger flow
   than a returned one; the network is not mutated. *)
C9_TopKByFlow ==
    /\ [](ret.op = "top_k_by_flow_centrality" =>
             LET v == ret.value
                 f == ret.flow
             IN  /\ Len(v) = Min(ret.k, Cardinality(nodes))
                 /\ SeqToSet(v) \subseteq nodes
                 /\ NoDuplicates(v)
                 /\ \A u \in nodes : f[u] = Cardinality(PathPairs(u))
                 /\ \A i \in 1..Len(v), j \in 1..Len(v) :
                       i < j => f[v[i]] >= f[v[j]]
                 /\ \A u \in nodes \ SeqToSet(v), i \in 1..Len(v) :
                       f[u] <= f[v[i]])
    /\ [][ret'.op = "top_k_by_flow_centrality" => graph' = graph]_vars

\* a ranking cut short of the users, over flows that differ
C9_Witness ==
    /\ ret.op = "top_k_by_flow_centrality"
    /\ ret.k >= 1 /\ ret.k < Cardinality(nodes)
    /\ \E u \in nodes : ret.flow[u] >= 2
    /\ \E u \in nodes \ SeqToSet(ret.value) : ret.flow[u] = 0

(* C5: what direct_referrals(user) and get_all_nodes() return does not
   alias the network's state: a caller adding to or removing from a returned
   collection leaves _parents, _children and _nodes unchanged (and so every
   later query answers as if the caller had not written). *)
C5_NoAliasing ==
    [][(HoldsCollection /\ ret'.op = ret.op /\ ret'.value # ret.value)
          => graph' = graph]_vars

(* C10: expected_network_size(0, d) = 100 for every d >= 0 and
   expected_network_size(1, 0) = 200; the loop runs days + 1 times, each run
   adds p * (expected referrers at capacity 1..10) to the total, and the
   referrers a day's successes create are active from the next run on. *)
C10_ExpectedNetworkSize ==
    /\ [](sim.pc = "done" =>
             /\ sim.iter = sim.days + 1
             /\ sim.p = 0 => sim.result = 100 * Scale
             /\ (sim.p = PDen /\ sim.days = 0) => sim.result = 200 * Scale)
    /\ [][sim'.iter # sim.iter =>
             LET cap    == sim.capacity
                 active == cap[1] + cap[2] + cap[3] + cap[4] + cap[5]
                           + cap[6] + cap[7] + cap[8] + cap[9] + cap[10]
                 after  == sim'.capacity
                 active_after ==
                           after[1] + after[2] + after[3] + after[4] + after[5]
                           + after[6] + after[7] + after[8] + after[9]
                           + after[10]
                 gained == sim'.total - sim.total
             IN  /\ sim'.iter = sim.iter + 1
                 /\ gained * PDen = sim.p * active
                 \* those who joined today and those who still have capacity
                 /\ active_after = active + gained - TimesP(cap[1], sim.p)
         ]_vars

\* expected_network_size(1, 0) has returned
C10_Witness == sim.pc = "done" /\ sim.p = PDen /\ sim.days = 0

\* some bonus 10 * i reaches the target (the oracle is constant above
\* 10 * MaxBonusSteps)
BonusReaches(i) ==
    ReachesTarget(search.oracle, search.days, search.target,
                  BONUS_INCREMENT * i)

CanReach == \E i \in 0..MaxBonusSteps : BonusReaches(i)

Saturates == search.oracle[MaxBonusSteps] = PDen

MinimalBonus ==
    BONUS_INCREMENT *
        (CHOOSE i \in 0..MaxBonusSteps :
            BonusReaches(i) /\ \A j \in 0..(i - 1) : ~BonusReaches(j))

ResultAsClaimed ==
    IF CanReach THEN ~search.none /\ search.result = MinimalBonus
    ELSE search.none

\* whenever min_bonus_for_target returns, it returns what C6 says
ReturnedResultAsClaimed ==
    (search.pc = "done" /\ (CanReach \/ Saturates)) => ResultAsClaimed

(* C6: for a monotone adoption_prob and initial_high a positive multiple of
   BONUS_INCREMENT, min_bonus_for_target returns the smallest multiple b >= 0
   of BONUS_INCREMENT whose adoption_prob(b) reaches the target when there is
   one, and None when adoption_prob saturates at 1.0 with the target
   unreached. *)
C6_ReturnsMinimalBonus ==
    (search.pc = "phase1" /\ (CanReach \/ Saturates))
        ~> (search.pc = "done" /\ ResultAsClaimed)

(* C7: min_bonus_for_target terminates for every monotone adoption_prob that
   reaches the target at a finite bonus or saturates at 1.0: phase 1 ends
   after finitely many doublings and every iteration of the binary search
   strictly shrinks the interval [low, high] until the loop exits. *)
C7_Terminates ==
    /\ [][search.pc = "probe" =>
             search'.high - search'.low < search.high - search.low]_vars
    /\ (search.pc = "phase1" /\ (CanReach \/ Saturates))
           ~> (search.pc = "done")

=============================================================================
